---- MODULE Spec2Model ----
(***************************************************************************)
(* A model of the persisted state of the tanzu CLI: the data store         *)
(* (pkg/datastore/data_store.go), a YAML key/value document guarded by a   *)
(* file lock, and the plugin catalog (pkg/catalog/catalog.go), a YAML      *)
(* document rewritten whole by every mutation; and of the computations     *)
(* built around them: discovery resolution over the rows of the central    *)
(* repository database (pkg/discovery/oci_central.go), the typed reader of *)
(* the central configuration (pkg/centralconfig), the plugin-group         *)
(* identifiers of the group commands (pkg/command/plugin_group.go), the    *)
(* check for a recommended CLI version (pkg/recommendedversion).           *)
(***************************************************************************)
EXTENDS Integers, Sequences, FiniteSets, TLC

VARIABLES
    dsDir,       \* TRUE iff the directory holding the data store file exists
    dsFile,      \* NoFile, or the bytes of the data store file
    lockFile,    \* the package variable lockFile: "nil", "open" or "closed"
    dsLast,      \* the last completed data store call, with the store it started from
    proc,        \* per CLI process: where it is in its data store call, and its locals
    flock,       \* the advisory lock on the data store file: its holders
    serialFile,  \* history: the file had the committed calls run one at a time
    committed,   \* history: per key, the last committed write to it
    catFile,     \* NoFile, or the bytes of catalog.yaml
    handle,      \* the ContextCatalog values the process holds
    catLast,     \* the last completed catalog call, with the handle it started from
    via,         \* history: per scope, the plugins upserted through it
    catCalls,    \* the catalog calls made so far
    catProc,     \* per concurrent CLI process: where it is in its catalog calls,
                 \* the document it is writing and the paths it has upserted
    lastWrite,   \* history: the process whose write to catalog.yaml came last
    dbRows,      \* the rows the PluginBinaries query returns, in its order
    scan,        \* getPluginsFromDB's locals, and the rows it has consumed
    discRet,     \* what getPluginsFromDB returned, once it has
    cursor,      \* the row cursor of its query: "none", "open" or "closed"
    cfgFile,     \* the central config file of the discovery source
    cfgLast,     \* the last GetCentralConfigEntry call and what it returned
    pg,          \* the plugin group the group commands display
    gID,         \* the group identifier last printed, and the function that printed it
    groupIdentifier,  \* what "plugin group get" made of that string
    now,         \* the clock, in the unit the delay is counted in
    delay,       \* what getRecommendationDelayInSeconds returns
    inv,         \* per CLI invocation: where it is in CheckRecommendedCLIVersion
    printedAt    \* history: the recommendations printed, by whom and when

dsVars == <<dsDir, dsFile, lockFile, dsLast>>

concVars == <<proc, flock, serialFile, committed>>

catVars == <<catFile, handle, catLast, via, catCalls, catProc, lastWrite>>

discVars == <<dbRows, scan, discRet, cursor>>

cfgVars == <<cfgFile, cfgLast>>

\* Everything but the data store and the catalog.
grpVars == <<pg, gID, groupIdentifier>>

verVars == <<now, delay, inv, printedAt>>

extVars == <<discVars, cfgVars, grpVars, verVars>>

storeVars == <<dsVars, concVars, catVars>>

vars == <<dsDir, dsFile, lockFile, dsLast, proc, flock, serialFile, committed,
          catFile, handle, catLast, via, catCalls, catProc, lastWrite,
          dbRows, scan, discRet, cursor, cfgFile, cfgLast, pg, gID, groupIdentifier,
          now, delay, inv, printedAt>>

\* Everything but discovery resolution, and everything but the central config.
nonDiscVars == <<storeVars, cfgVars, grpVars, verVars>>

nonCfgVars == <<storeVars, discVars, grpVars, verVars>>

nonGrpVars == <<storeVars, discVars, cfgVars, verVars>>

-----------------------------------------------------------------------------
(* Go values and their YAML encoding.                                      *)

\* A Go value is a record [t, v]: its dynamic type and its printed content.
GoNil == [t |-> "nil", v |-> ""]

GoString(s) == [t |-> "string", v |-> s]

GoInt == [t |-> "int", v |-> "1"]

GoBool == [t |-> "bool", v |-> "true"]

\* map[string]string{"testSubKey": "testValue"}, as the tests store it.
GoTypedMap == [t |-> "map[string]string", v |-> "testSubKey: testValue"]

\* map[string]interface{}{"testSubKey": "testValue"}, as the tests read it back.
GoGenericMap == [t |-> "map[string]interface {}", v |-> "testSubKey: testValue"]

\* The keys and values the calls are made with (the tests' keys and values).
Keys == {"", "testKey", "otherKey"}

Values == {GoNil, GoString("testValue"), GoString(""), GoInt, GoTypedMap}

\* yaml.Marshal of one value: a node with the tag the encoder resolves.
yamlEncodeValue(val) ==
    CASE val.t = "nil" -> [tag |-> "!!null", v |-> "null"]
      [] val.t = "string" -> [tag |-> "!!str", v |-> val.v]
      [] val.t = "int" -> [tag |-> "!!int", v |-> val.v]
      [] val.t = "bool" -> [tag |-> "!!bool", v |-> val.v]
      [] val.t = "time.Time" -> [tag |-> "!!timestamp", v |-> val.v]
      [] val.t \in {"map[string]string", "map[string]interface {}"} ->
            [tag |-> "!!map", v |-> val.v]

\* yaml.Unmarshal of one node into a DataStoreValue (interface{}).
yamlDecodeValue(node) ==
    CASE node.tag = "!!null" -> GoNil
      [] node.tag = "!!str" -> GoString(node.v)
      [] node.tag = "!!int" -> [t |-> "int", v |-> node.v]
      [] node.tag = "!!bool" -> [t |-> "bool", v |-> node.v]
      [] node.tag = "!!timestamp" -> [t |-> "time.Time", v |-> node.v]
      [] node.tag = "!!map" -> [t |-> "map[string]interface {}", v |-> node.v]

\* The file system holds no file, a file of zero bytes, or a YAML mapping.
NoFile == [kind |-> "nofile"]

EmptyBytes == [kind |-> "empty"]

YamlMapping(m) == [kind |-> "mapping", m |-> m]

\* A dataStoreContent: the nil map, or a map from keys to values.
NilContent == [kind |-> "nilmap"]

MapContent(m) == [kind |-> "map", m |-> m]

\* content[key] on a dataStoreContent: the value and whether the key is present.
contentKeys(content) == IF content.kind = "map" THEN DOMAIN content.m ELSE {}

contentGet(content, key) ==
    IF key \in contentKeys(content) THEN content.m[key] ELSE GoNil

\* content[key] = value; the caller has replaced a nil map by an empty one.
contentPut_Alone(content, key, value) == MapContent([k \in {key} |-> value])

contentPut(content, key, value) ==
    MapContent([k \in contentKeys(content) \cup {key} |->
                    IF k = key THEN value ELSE content.m[k]])

\* delete(content, key)
contentDelete(content, key) ==
    IF content.kind = "map"
    THEN MapContent([k \in DOMAIN content.m \ {key} |-> content.m[k]])
    ELSE content

\* yaml.Unmarshal(b, &content): zero bytes hold no document and leave content nil.
yamlUnmarshal(b) ==
    IF b.kind = "mapping"
    THEN MapContent([k \in DOMAIN b.m |-> yamlDecodeValue(b.m[k])])
    ELSE NilContent

\* yaml.Marshal(content): a nil map and an empty map both encode as "{}".
yamlMarshal(content) ==
    YamlMapping([k \in contentKeys(content) |-> yamlEncodeValue(content.m[k])])

-----------------------------------------------------------------------------
(* The data store's functions, on a store s = [dir, file, lockFile].       *)

Store(dir, file, lf) == [dir |-> dir, file |-> file, lockFile |-> lf]

\* getDataStoreBytes without the os.MkdirAll of the missing directory: the
\* open then fails in a missing directory and leaves lockFile nil.
getDataStoreBytes_NoMkdir(s, setWriteLock) ==
    IF setWriteLock
    THEN IF ~s.dir
         THEN [s |-> Store(s.dir, s.file, "nil"), b |-> EmptyBytes, err |-> "ENOENT"]
         ELSE LET f == IF s.file = NoFile THEN EmptyBytes ELSE s.file
              IN  [s |-> Store(TRUE, f, "open"), b |-> f, err |-> "nil"]
    ELSE IF s.file = NoFile
         THEN [s |-> s, b |-> EmptyBytes, err |-> "ENOENT"]
         ELSE [s |-> s, b |-> s.file, err |-> "nil"]

\* getDataStoreBytes: with the write lock the directory and the file are
\* created when missing (os.MkdirAll, lockedfile.Edit opens with O_CREATE) and
\* the handle is kept in lockFile; without it lockedfile.Read fails on a
\* missing file.
getDataStoreBytes(s, setWriteLock) ==
    IF setWriteLock
    THEN LET f == IF s.file = NoFile THEN EmptyBytes ELSE s.file
         IN  [s |-> Store(TRUE, f, "open"), b |-> f, err |-> "nil"]
    ELSE IF s.file = NoFile
         THEN [s |-> s, b |-> EmptyBytes, err |-> "ENOENT"]
         ELSE [s |-> s, b |-> s.file, err |-> "nil"]

\* getDataStoreContent: a missing file is an empty (nil) content, not an error.
getDataStoreContent(s, setWriteLock) ==
    LET r == getDataStoreBytes(s, setWriteLock)
    IN  IF r.err # "nil"
        THEN [s |-> r.s, content |-> NilContent,
              err |-> IF r.err = "ENOENT" THEN "nil" ELSE r.err]
        ELSE [s |-> r.s, content |-> yamlUnmarshal(r.b), err |-> "nil"]

\* saveAndClose: stat, encode, truncate, seek, write; the deferred Close
\* releases the lock.
saveAndClose(s, content) ==
    IF s.lockFile = "nil"
    THEN [s |-> s, err |-> "cannot save the data store file as it is not locked"]
    ELSE IF s.file = NoFile
         THEN [s |-> Store(s.dir, s.file, "closed"),
               err |-> "could not stat the data store file"]
         ELSE [s |-> Store(s.dir, yamlMarshal(content), "closed"), err |-> "nil"]

\* GetDataStoreValue reading through the write-lock path.
GetDataStoreValue_WriteLock(s, key) ==
    LET r == getDataStoreContent(s, TRUE)
    IN  IF r.err # "nil" \/ r.content = NilContent
        THEN [s |-> r.s, ret |-> GoNil, err |-> r.err]
        ELSE [s |-> r.s, ret |-> contentGet(r.content, key), err |-> "nil"]

\* GetDataStoreValue(key)
GetDataStoreValue(s, key) ==
    LET r == getDataStoreContent(s, FALSE)
    IN  IF r.err # "nil" \/ r.content = NilContent
        THEN [s |-> r.s, ret |-> GoNil, err |-> r.err]
        ELSE [s |-> r.s, ret |-> contentGet(r.content, key), err |-> "nil"]

\* SetDataStoreValue(key, value)
SetDataStoreValue(s, key, value) ==
    LET r == getDataStoreContent(s, TRUE)
    IN  IF r.err # "nil"
        THEN [s |-> r.s, ret |-> GoNil, err |-> r.err]
        ELSE LET w == saveAndClose(r.s, contentPut(r.content, key, value))
             IN  [s |-> w.s, ret |-> GoNil, err |-> w.err]

\* DeleteDataStoreValue saving the content before the key is removed from it.
DeleteDataStoreValue_SaveFirst(s, key) ==
    LET r == getDataStoreContent(s, TRUE)
    IN  IF r.err # "nil"
        THEN [s |-> r.s, ret |-> GoNil, err |-> r.err]
        ELSE IF key \notin contentKeys(r.content)
             THEN [s |-> saveAndClose(r.s, r.content).s, ret |-> GoNil,
                   err |-> "key not found in data store"]
             ELSE LET w == saveAndClose(r.s, r.content)
                  IN  [s |-> w.s, ret |-> contentGet(r.content, key), err |-> w.err]

\* DeleteDataStoreValue reporting an absent key as a success.
DeleteDataStoreValue_NoError(s, key) ==
    LET r == getDataStoreContent(s, TRUE)
    IN  IF r.err # "nil"
        THEN [s |-> r.s, ret |-> GoNil, err |-> r.err]
        ELSE LET w == saveAndClose(r.s, contentDelete(r.content, key))
             IN  [s |-> w.s, ret |-> contentGet(r.content, key), err |-> w.err]

\* DeleteDataStoreValue(key)
DeleteDataStoreValue(s, key) ==
    LET r == getDataStoreContent(s, TRUE)
    IN  IF r.err # "nil"
        THEN [s |-> r.s, ret |-> GoNil, err |-> r.err]
        ELSE IF key \notin contentKeys(r.content)
             THEN [s |-> saveAndClose(r.s, r.content).s, ret |-> GoNil,
                   err |-> "key not found in data store"]
             ELSE LET w == saveAndClose(r.s, contentDelete(r.content, key))
                  IN  [s |-> w.s, ret |-> contentGet(r.content, key), err |-> w.err]

-----------------------------------------------------------------------------
(* One CLI process calling the data store: each action is one whole call.  *)

CurStore == Store(dsDir, dsFile, lockFile)

NoCall == [op |-> "none", key |-> "", value |-> GoNil, ret |-> GoNil,
           err |-> "nil", pre |-> Store(FALSE, NoFile, "nil")]

\* The documents a store may hold when the CLI starts: the tests' fixtures.
InitFiles ==
    {NoFile, EmptyBytes,
     YamlMapping([k \in {"testKey"} |-> [tag |-> "!!str", v |-> "testValue"]]),
     YamlMapping([k \in {"testKey"} |-> [tag |-> "!!null", v |-> "null"]]),
     YamlMapping([k \in {"otherKey"} |-> [tag |-> "!!map", v |-> "testSubKey: testValue"]])}

DsInit ==
    /\ dsDir \in BOOLEAN
    /\ dsFile \in InitFiles
    /\ (dsFile # NoFile => dsDir)
    /\ lockFile = "nil"
    /\ dsLast = NoCall

\* What a completed call leaves behind: the store, and the record of the call.
Finish(op, key, value, r) ==
    /\ dsDir' = r.s.dir
    /\ dsFile' = r.s.file
    /\ lockFile' = r.s.lockFile
    /\ dsLast' = [op |-> op, key |-> key, value |-> value, ret |-> r.ret,
                  err |-> r.err, pre |-> CurStore]
    /\ UNCHANGED <<concVars, catVars, extVars>>

Get ==
    \E key \in Keys :
        LET r == GetDataStoreValue(CurStore, key)
        IN  Finish("Get", key, GoNil, r)

Set ==
    \E key \in Keys, value \in Values :
        LET r == SetDataStoreValue(CurStore, key, value)
        IN  Finish("Set", key, value, r)

Delete ==
    \E key \in Keys :
        LET r == DeleteDataStoreValue(CurStore, key)
        IN  Finish("Delete", key, GoNil, r)

-----------------------------------------------------------------------------
(* Several CLI processes calling the data store at once: each action is    *)
(* one step of a call, a system call on the file or on its lock.           *)

Procs == {"p1", "p2"}

\* The calls each process makes.
MaxCalls == 2

ConcKeys == {"testKey", "otherKey"}

ConcValues == {GoString("testValue"), GoInt}

Idle == [pc |-> "idle", op |-> "none", key |-> "", value |-> GoNil,
         content |-> NilContent, ret |-> GoNil, err |-> "nil"]

NoWrite == [op |-> "none", value |-> GoNil]

ConcInit ==
    /\ proc = [p \in Procs |-> [call |-> 0, at |-> Idle]]
    /\ flock = [excl |-> "none", shared |-> {}]
    /\ serialFile = dsFile
    /\ committed = [k \in ConcKeys |-> NoWrite]

At(p, pc) == proc[p].at.pc = pc

Goto(p, at) == proc' = [proc EXCEPT ![p].at = at]

\* A call returns: the process is idle again, its locals gone.
Return(p) == proc' = [proc EXCEPT ![p] = [call |-> proc[p].call + 1, at |-> Idle]]

\* flock(LOCK_EX) returns once no other process holds the lock.
exclusiveLockFree_NoWait == TRUE

exclusiveLockFree == flock.excl = "none" /\ flock.shared = {}

\* flock(LOCK_SH) returns once no process holds the lock exclusively.
sharedLockFree_NoWait == TRUE

sharedLockFree == flock.excl = "none"

\* A process starts GetDataStoreValue, SetDataStoreValue or DeleteDataStoreValue.
Begin(p) ==
    /\ At(p, "idle")
    /\ proc[p].call < MaxCalls
    /\ \E op \in {"Get", "Set", "Delete"}, key \in ConcKeys, value \in ConcValues :
          Goto(p, [Idle EXCEPT !.pc = "open", !.op = op, !.key = key,
                               !.value = IF op = "Set" THEN value ELSE GoNil])
    /\ UNCHANGED <<extVars, catVars, lockFile, dsLast, dsDir, dsFile, flock, serialFile, committed>>

\* getDataStoreBytes(true): os.MkdirAll, then the open of lockedfile.Edit,
\* which creates a missing file.
OpenForEdit(p) ==
    /\ At(p, "open")
    /\ proc[p].at.op \in {"Set", "Delete"}
    /\ dsDir' = TRUE
    /\ dsFile' = IF dsFile = NoFile THEN EmptyBytes ELSE dsFile
    /\ Goto(p, [proc[p].at EXCEPT !.pc = "lock"])
    /\ UNCHANGED <<extVars, catVars, lockFile, dsLast, flock, serialFile, committed>>

\* lockedfile.Edit: the exclusive lock on the opened file.
LockExclusive(p) ==
    /\ At(p, "lock")
    /\ exclusiveLockFree
    /\ flock' = [flock EXCEPT !.excl = p]
    /\ Goto(p, [proc[p].at EXCEPT !.pc = "read"])
    /\ UNCHANGED <<extVars, catVars, lockFile, dsLast, dsDir, dsFile, serialFile, committed>>

\* io.ReadAll(lockFile) and yaml.Unmarshal, then the change made in memory:
\* content[key] = value, or delete(content, key) of a present key.
ReadLocked(p) ==
    /\ At(p, "read")
    /\ LET at == proc[p].at
           content == yamlUnmarshal(dsFile)
       IN  Goto(p, IF at.op = "Set"
                   THEN [at EXCEPT !.pc = "truncate",
                                   !.content = contentPut(content, at.key, at.value)]
                   ELSE IF at.key \notin contentKeys(content)
                   THEN [at EXCEPT !.pc = "truncate", !.content = content,
                                   !.err = "key not found in data store"]
                   ELSE [at EXCEPT !.pc = "truncate",
                                   !.content = contentDelete(content, at.key),
                                   !.ret = contentGet(content, at.key)])
    /\ UNCHANGED <<extVars, catVars, lockFile, dsLast, dsDir, dsFile, flock, serialFile, committed>>

\* saveAndClose: os.Stat, yaml.Marshal and lockFile.Truncate(0).
Truncate(p) ==
    /\ At(p, "truncate")
    /\ dsFile # NoFile
    /\ dsFile' = EmptyBytes
    /\ Goto(p, [proc[p].at EXCEPT !.pc = "write"])
    /\ UNCHANGED <<extVars, catVars, lockFile, dsLast, dsDir, flock, serialFile, committed>>

\* saveAndClose: lockFile.Seek(0, 0) and lockFile.Write(out). The histories
\* record the call as committed here.
Write(p) ==
    /\ At(p, "write")
    /\ LET at == proc[p].at
           s == Store(TRUE, serialFile, "nil")
       IN  /\ dsFile' = yamlMarshal(at.content)
           /\ serialFile' = IF at.op = "Set"
                             THEN SetDataStoreValue(s, at.key, at.value).s.file
                             ELSE DeleteDataStoreValue(s, at.key).s.file
           /\ committed' = IF at.err = "nil"
                            THEN [committed EXCEPT ![at.key] = [op |-> at.op, value |-> at.value]]
                            ELSE committed
           /\ Goto(p, [at EXCEPT !.pc = "close"])
    /\ UNCHANGED <<extVars, catVars, lockFile, dsLast, dsDir, flock>>

\* saveAndClose: the deferred lockFile.Close() releases the lock.
Close(p) ==
    /\ At(p, "close")
    /\ flock' = [flock EXCEPT !.excl = "none"]
    /\ Return(p)
    /\ UNCHANGED <<extVars, catVars, lockFile, dsLast, dsDir, dsFile, serialFile, committed>>

\* getDataStoreBytes(false): the open of lockedfile.Read, which fails on a
\* missing file; GetDataStoreValue then returns (nil, nil).
OpenForRead(p) ==
    /\ At(p, "open")
    /\ proc[p].at.op = "Get"
    /\ IF dsFile = NoFile
       THEN Return(p)
       ELSE Goto(p, [proc[p].at EXCEPT !.pc = "rlock"])
    /\ UNCHANGED <<extVars, catVars, lockFile, dsLast, dsDir, dsFile, flock, serialFile, committed>>

\* lockedfile.Read: the shared lock on the opened file.
LockShared(p) ==
    /\ At(p, "rlock")
    /\ sharedLockFree
    /\ flock' = [flock EXCEPT !.shared = @ \cup {p}]
    /\ Goto(p, [proc[p].at EXCEPT !.pc = "rread"])
    /\ UNCHANGED <<extVars, catVars, lockFile, dsLast, dsDir, dsFile, serialFile, committed>>

\* lockedfile.Read: io.ReadAll, and the decoding of what was read.
ReadShared(p) ==
    /\ At(p, "rread")
    /\ LET content == yamlUnmarshal(dsFile)
       IN  Goto(p, [proc[p].at EXCEPT !.pc = "rclose", !.content = content,
                                      !.ret = contentGet(content, proc[p].at.key)])
    /\ UNCHANGED <<extVars, catVars, lockFile, dsLast, dsDir, dsFile, flock, serialFile, committed>>

\* lockedfile.Read: the file is closed and the shared lock released.
CloseShared(p) ==
    /\ At(p, "rclose")
    /\ flock' = [flock EXCEPT !.shared = @ \ {p}]
    /\ Return(p)
    /\ UNCHANGED <<extVars, catVars, lockFile, dsLast, dsDir, dsFile, serialFile, committed>>

-----------------------------------------------------------------------------
(* The plugin catalog: catalog.yaml and the ContextCatalog handles on it.  *)

\* PluginNameTarget(pluginName, target)
PluginNameTarget(pluginName, target) ==
    IF target = "" THEN pluginName ELSE pluginName \o "_" \o target

PluginInfo(name, target, version, path) ==
    [Name |-> name, Target |-> target, Version |-> version, InstallationPath |-> path]

\* cli.PluginInfo{}
ZeroPluginInfo == PluginInfo("", "", "", "")

\* The descriptors Upsert is called with. An installation path is the file
\* of one plugin binary: distinct descriptors have distinct paths.
Plugins ==
    {PluginInfo("cluster", "kubernetes", "v1.0.0", "cluster/v1.0.0_kubernetes"),
     PluginInfo("cluster", "kubernetes", "v2.0.0", "cluster/v2.0.0_kubernetes"),
     PluginInfo("login", "", "v1.0.0", "login/v1.0.0_")}

PluginKey(plugin) == PluginNameTarget(plugin.Name, plugin.Target)

PluginKeys == {PluginKey(plugin) : plugin \in Plugins}

\* The context names; the empty name is the stand-alone scope.
Contexts == {"", "ctxX", "ctxY"}

EmptyMap == [x \in {} |-> x]

\* utils.ContainsString
ContainsString_Never(list, s) == FALSE

ContainsString(list, s) == \E i \in 1..Len(list) : list[i] = s

MapGet(m, k, zero) == IF k \in DOMAIN m THEN m[k] ELSE zero

MapPut(m, k, v) == [x \in DOMAIN m \cup {k} |-> IF x = k THEN v ELSE m[x]]

MapDelete(m, k) == [x \in DOMAIN m \ {k} |-> m[x]]

MapValues(m) == {m[x] : x \in DOMAIN m}

\* The Catalog struct.
Catalog(byPath, byName, standAlone, server) ==
    [IndexByPath |-> byPath, IndexByName |-> byName,
     StandAlonePlugins |-> standAlone, ServerPlugins |-> server]

\* newSharedCatalog: four empty maps.
newSharedCatalog == Catalog(EmptyMap, EmptyMap, EmptyMap, EmptyMap)

\* yaml.Marshal(catalog): the document of the four sections.
marshalCatalog(catalog) ==
    [kind |-> "catalog",
     indexByPath |-> catalog.IndexByPath,
     indexByName |-> catalog.IndexByName,
     standAlonePlugins |-> catalog.StandAlonePlugins,
     serverPlugins |-> catalog.ServerPlugins]

\* getCatalogCache: a file that cannot be read gives the empty catalog; a
\* file of zero bytes decodes to a Catalog of nil maps, each then replaced
\* by an empty map.
getCatalogCache(file) ==
    IF file.kind = "catalog"
    THEN Catalog(file.indexByPath, file.indexByName,
                 file.standAlonePlugins, file.serverPlugins)
    ELSE newSharedCatalog

\* A ContextCatalog: sharedCatalog, and the scope whose association map of
\* sharedCatalog the field plugins refers to.
NoHandle == [open |-> FALSE]

ContextCatalog(catalog, context) ==
    [open |-> TRUE, sharedCatalog |-> catalog, context |-> context]

\* c.plugins
plugins(c) ==
    IF c.context = ""
    THEN c.sharedCatalog.StandAlonePlugins
    ELSE c.sharedCatalog.ServerPlugins[c.context]

\* An assignment through c.plugins, which aliases a map of sharedCatalog.
withPlugins(c, m) ==
    IF c.context = ""
    THEN [c EXCEPT !.sharedCatalog.StandAlonePlugins = m]
    ELSE [c EXCEPT !.sharedCatalog.ServerPlugins = MapPut(@, c.context, m)]

\* NewContextCatalog(context): the catalog is loaded; an unseen context gets
\* an empty association map, in memory only.
NewContextCatalog(file, context) ==
    LET sc == getCatalogCache(file)
    IN  IF context = "" \/ context \in DOMAIN sc.ServerPlugins
        THEN ContextCatalog(sc, context)
        ELSE ContextCatalog([sc EXCEPT !.ServerPlugins = MapPut(@, context, EmptyMap)],
                            context)

\* Upsert recording every association in the stand-alone map.
ContextUpsert_StandAlone(c, plugin) ==
    LET pluginNameTarget == PluginNameTarget(plugin.Name, plugin.Target)
        c1 == [c EXCEPT !.sharedCatalog.StandAlonePlugins =
                            MapPut(@, pluginNameTarget, plugin.InstallationPath)]
    IN  [c1 EXCEPT !.sharedCatalog.IndexByPath =
                       MapPut(@, plugin.InstallationPath, plugin)]

\* Upsert leaving the path index alone.
ContextUpsert_NoPathIndex(c, plugin) ==
    LET pluginNameTarget == PluginNameTarget(plugin.Name, plugin.Target)
    IN  withPlugins(c, MapPut(plugins(c), pluginNameTarget, plugin.InstallationPath))

\* Upsert keeping the installation path an earlier Upsert recorded.
ContextUpsert_KeepPath(c, plugin) ==
    LET pluginNameTarget == PluginNameTarget(plugin.Name, plugin.Target)
        c1 == IF pluginNameTarget \in DOMAIN plugins(c)
              THEN c
              ELSE withPlugins(c, MapPut(plugins(c), pluginNameTarget,
                                         plugin.InstallationPath))
    IN  [c1 EXCEPT !.sharedCatalog.IndexByPath =
                       MapPut(@, plugin.InstallationPath, plugin)]

\* Upsert, up to the save: the association, the path index, the name index.
ContextUpsert(c, plugin) ==
    LET pluginNameTarget == PluginNameTarget(plugin.Name, plugin.Target)
        c1 == withPlugins(c, MapPut(plugins(c), pluginNameTarget, plugin.InstallationPath))
        c2 == [c1 EXCEPT !.sharedCatalog.IndexByPath =
                             MapPut(@, plugin.InstallationPath, plugin)]
        paths == MapGet(c2.sharedCatalog.IndexByName, pluginNameTarget, <<>>)
    IN  IF ContainsString(paths, plugin.InstallationPath)
        THEN c2
        ELSE [c2 EXCEPT !.sharedCatalog.IndexByName =
                            MapPut(@, pluginNameTarget,
                                   Append(paths, plugin.InstallationPath))]

\* Get(plugin): the descriptor and whether it was found.
ContextGet(c, key) ==
    IF key \notin DOMAIN plugins(c)
    THEN [pd |-> ZeroPluginInfo, ok |-> FALSE]
    ELSE LET path == plugins(c)[key]
         IN  IF path \notin DOMAIN c.sharedCatalog.IndexByPath
             THEN [pd |-> ZeroPluginInfo, ok |-> FALSE]
             ELSE [pd |-> c.sharedCatalog.IndexByPath[path], ok |-> TRUE]

\* List(): the descriptors of the scope's installation paths.
ContextList(c) ==
    {MapGet(c.sharedCatalog.IndexByPath, path, ZeroPluginInfo) :
        path \in MapValues(plugins(c))}

\* Delete purging the descriptor of the deleted association as well.
ContextDelete_Purge(c, key) ==
    IF key \in DOMAIN plugins(c)
    THEN [withPlugins(c, MapDelete(plugins(c), key))
             EXCEPT !.sharedCatalog.IndexByPath = MapDelete(@, plugins(c)[key])]
    ELSE c

\* Delete, up to the save: the association of the key is removed.
ContextDelete(c, key) ==
    IF key \in DOMAIN plugins(c) THEN withPlugins(c, MapDelete(plugins(c), key)) ELSE c

\* saveCatalogCache leaving the context associations out of the document.
saveCatalogCache_NoServer(catalog) ==
    marshalCatalog([catalog EXCEPT !.ServerPlugins = EmptyMap])

\* saveCatalogCache: the cache directory is made when the file is missing,
\* and os.WriteFile replaces the file by the encoded catalog.
saveCatalogCache(catalog) == marshalCatalog(catalog)

-----------------------------------------------------------------------------
(* One CLI process using the catalog: each action is one whole call.       *)

Handles == {"h1", "h2"}

\* The catalog calls of one run.
MaxCatCalls == 5

NoCatCall == [op |-> "none", h |-> "", key |-> "", plugin |-> ZeroPluginInfo,
              pre |-> NoHandle, result |-> [pd |-> ZeroPluginInfo, ok |-> FALSE]]

CatInit ==
    /\ catFile = NoFile
    /\ handle = [h \in Handles |-> NoHandle]
    /\ catLast = NoCatCall
    /\ via = [context \in Contexts |-> {}]
    /\ catCalls = 0
    /\ catProc = [p \in Handles |-> [pc |-> "start", n |-> 0, out |-> NoFile, mine |-> {}]]
    /\ lastWrite = [by |-> "none", clean |-> TRUE]

CatCall(op, h, key, plugin, result) ==
    /\ catCalls < MaxCatCalls
    /\ catCalls' = catCalls + 1
    /\ catLast' = [op |-> op, h |-> h, key |-> key, plugin |-> plugin,
                   pre |-> handle[h], result |-> result]
    /\ UNCHANGED <<extVars, dsVars, concVars, catProc, lastWrite>>

\* c, err := NewContextCatalog(context), kept in variable h.
CatOpen ==
    \E h \in Handles, context \in Contexts :
        /\ handle' = [handle EXCEPT ![h] = NewContextCatalog(catFile, context)]
        /\ CatCall("New", h, context, ZeroPluginInfo, NoCatCall.result)
        /\ UNCHANGED <<catFile, via>>

\* c.Upsert(plugin)
CatUpsert ==
    \E h \in Handles, plugin \in Plugins :
        /\ handle[h].open
        /\ LET c == ContextUpsert(handle[h], plugin)
           IN  /\ handle' = [handle EXCEPT ![h] = c]
               /\ catFile' = saveCatalogCache(c.sharedCatalog)
        /\ via' = [via EXCEPT ![handle[h].context] = @ \cup {<<plugin.Name, plugin.Target>>}]
        /\ CatCall("Upsert", h, PluginKey(plugin), plugin, NoCatCall.result)

\* c.Get(key)
CatGet ==
    \E h \in Handles, key \in PluginKeys :
        /\ handle[h].open
        /\ CatCall("Get", h, key, ZeroPluginInfo, ContextGet(handle[h], key))
        /\ UNCHANGED <<catFile, handle, via>>

\* c.Delete(key)
CatDelete ==
    \E h \in Handles, key \in PluginKeys :
        /\ handle[h].open
        /\ LET c == ContextDelete(handle[h], key)
           IN  /\ handle' = [handle EXCEPT ![h] = c]
               /\ catFile' = saveCatalogCache(c.sharedCatalog)
        /\ CatCall("Delete", h, key, ZeroPluginInfo, NoCatCall.result)
        /\ UNCHANGED via

\* getPluginsFromDB has not been called: no rows, no locals, no return.
NilPlugin == [Name |-> "<nil>"]

NoScan ==
    [pos |-> 0, currentPluginID |-> "", currentVersion |-> "",
     currentPlugin |-> NilPlugin, allPlugins |-> <<>>,
     artifactList |-> <<>>, artifacts |-> EmptyMap]

Running == [kind |-> "running", plugins |-> <<>>, err |-> "nil"]

DiscIdle == dbRows = <<>> /\ scan = NoScan /\ discRet = Running /\ cursor = "none"

\* No central config file, and no call of its reader.
NoCfgCall == [key |-> "", out |-> "none", err |-> "none", set |-> FALSE]

CfgIdle == cfgFile = NoFile /\ cfgLast = NoCfgCall

\* No plugin group, nothing printed, nothing parsed.
NoGroup == [Vendor |-> <<>>, Publisher |-> <<>>, Name |-> <<>>, Version |-> <<>>]

NotPrinted == [by |-> "none", str |-> <<>>]

NotParsed == [parsed |-> FALSE]

GrpIdle == pg = NoGroup /\ gID = NotPrinted /\ groupIdentifier = NotParsed

\* No invocation checks for a recommended version.
Invocations == {"i1", "i2"}

VerIdle ==
    /\ now = 0
    /\ delay = 0
    /\ inv = [i \in Invocations |-> [pc |-> "idle", n |-> 0]]
    /\ printedAt = <<>>

ExtIdle == DiscIdle /\ CfgIdle /\ GrpIdle /\ VerIdle

Init == DsInit /\ ConcInit /\ CatInit /\ ExtIdle

Next == Get \/ Set \/ Delete

Spec == Init /\ [][Next]_vars

CatNext == CatOpen \/ CatUpsert \/ CatGet \/ CatDelete

\* The data store and the catalog before any call, with no file.
StoresIdle ==
    /\ dsDir = FALSE /\ dsFile = NoFile /\ lockFile = "nil" /\ dsLast = NoCall
    /\ ConcInit
    /\ CatInit

\* The catalog is used with the data store left alone.
CatStart == StoresIdle /\ ExtIdle

CatSpec == CatStart /\ [][CatNext]_vars

ConcNext ==
    \E p \in Procs :
        \/ Begin(p)
        \/ OpenForEdit(p)
        \/ LockExclusive(p)
        \/ ReadLocked(p)
        \/ Truncate(p)
        \/ Write(p)
        \/ Close(p)
        \/ OpenForRead(p)
        \/ LockShared(p)
        \/ ReadShared(p)
        \/ CloseShared(p)

ConcSpec == Init /\ [][ConcNext]_vars

\* The process stops in the middle of a call (it is killed, or the machine
\* halts): it takes no further step, the file stays as its last system
\* call left it, and the kernel closes its descriptor, which drops its lock.
Crash(p) ==
    /\ ~At(p, "idle")
    /\ ~At(p, "crashed")
    /\ Goto(p, [Idle EXCEPT !.pc = "crashed"])
    /\ flock' = [excl |-> IF flock.excl = p THEN "none" ELSE flock.excl,
                 shared |-> flock.shared \ {p}]
    /\ UNCHANGED <<extVars, catVars, lockFile, dsLast, dsDir, dsFile, serialFile, committed>>

CrashNext == ConcNext \/ \E p \in Procs : Crash(p)

\* The data store used by processes that can stop at any step.
CrashSpec == Init /\ [][CrashNext]_vars

\* Bytes that yaml.Unmarshal does not decode into a dataStoreContent: a
\* document that is not a mapping, or no YAML at all.
NotAMapping == [kind |-> "undecodable"]

Decodable == dsFile # NotAMapping

\* getDataStoreContent(true) fails at yaml.Unmarshal (lines 95-98) after
\* lockedfile.Edit has locked the file: SetDataStoreValue and
\* DeleteDataStoreValue return the error at once (lines 46-48, 62-64).
\* saveAndClose is not called, so lockFile is not closed.
ReadLockedUndecodable(p) ==
    /\ At(p, "read")
    /\ ~Decodable
    /\ Return(p)
    /\ UNCHANGED <<extVars, catVars, lockFile, dsLast, dsDir, dsFile, flock, serialFile, committed>>

\* getDataStoreContent(false) fails at yaml.Unmarshal: lockedfile.Read has
\* read the bytes, and closes the file before GetDataStoreValue returns
\* the error.
ReadSharedUndecodable(p) ==
    /\ At(p, "rread")
    /\ ~Decodable
    /\ Goto(p, [proc[p].at EXCEPT !.pc = "rclose",
                                  !.err = "could not decode data store file"])
    /\ UNCHANGED <<extVars, catVars, lockFile, dsLast, dsDir, dsFile, flock, serialFile, committed>>

\* The store file when the processes start: empty, a document of one key,
\* or bytes that do not decode.
UndecodableInit ==
    /\ dsDir = TRUE
    /\ dsFile \in {EmptyBytes, NotAMapping,
                   YamlMapping([k \in {"testKey"} |-> [tag |-> "!!str", v |-> "testValue"]])}
    /\ lockFile = "nil"
    /\ dsLast = NoCall
    /\ ConcInit
    /\ CatInit
    /\ ExtIdle

UndecodableNext ==
    \E p \in Procs :
        \/ Begin(p)
        \/ OpenForEdit(p)
        \/ LockExclusive(p)
        \/ Decodable /\ ReadLocked(p)
        \/ ReadLockedUndecodable(p)
        \/ Truncate(p)
        \/ Write(p)
        \/ Close(p)
        \/ OpenForRead(p)
        \/ LockShared(p)
        \/ Decodable /\ ReadShared(p)
        \/ ReadSharedUndecodable(p)
        \/ CloseShared(p)

\* The data store used by several processes on a file that may not decode.
UndecodableSpec == UndecodableInit /\ [][UndecodableNext]_vars

-----------------------------------------------------------------------------
(* Two CLI processes using the catalog at once. Each holds one handle and  *)
(* each action is one step of a call: the load, or a system call of        *)
(* os.WriteFile (the open that truncates, the write).                      *)

\* The Upserts each process makes.
MaxUpserts == 2

\* The length of a file, by the entries of its document.
DocSize(b) ==
    CASE b.kind = "catalog" ->
            Cardinality(DOMAIN b.indexByPath)
            + Cardinality(UNION {{<<k, i>> : i \in 1..Len(b.indexByName[k])} :
                                    k \in DOMAIN b.indexByName})
            + Cardinality(DOMAIN b.standAlonePlugins)
            + Cardinality(DOMAIN b.serverPlugins)
            + Cardinality(UNION {{<<c, k>> : k \in DOMAIN b.serverPlugins[c]} :
                                    c \in DOMAIN b.serverPlugins})
      [] b.kind = "torn" -> b.size
      [] OTHER -> 0

\* The write of os.WriteFile, from offset 0 of a file opened by this
\* process: the bytes of a longer file past the end of out stay.
writeFile(file, out) ==
    IF DocSize(file) <= DocSize(out)
    THEN out
    ELSE [kind |-> "torn", head |-> out, size |-> DocSize(file)]

\* NewContextCatalog(context) in process p: os.ReadFile and the decoding.
CatLoad(p) ==
    /\ catProc[p].pc = "start"
    /\ catFile.kind # "torn"
    /\ \E context \in {"", "ctxX"} :
          handle' = [handle EXCEPT ![p] = NewContextCatalog(catFile, context)]
    /\ catProc' = [catProc EXCEPT ![p].pc = "ready"]
    /\ UNCHANGED <<extVars, dsVars, concVars, catFile, catLast, via, catCalls, lastWrite>>

\* c.Upsert(plugin) in process p, up to the open of os.WriteFile, whose
\* O_TRUNC empties the file.
CatUpsertTruncate(p) ==
    /\ catProc[p].pc = "ready"
    /\ catProc[p].n < MaxUpserts
    /\ \E plugin \in Plugins :
          LET c == ContextUpsert(handle[p], plugin)
          IN  /\ handle' = [handle EXCEPT ![p] = c]
              /\ catProc' = [catProc EXCEPT ![p].pc = "write",
                                            ![p].out = saveCatalogCache(c.sharedCatalog),
                                            ![p].mine = @ \cup {plugin.InstallationPath}]
    /\ catFile' = EmptyBytes
    /\ UNCHANGED <<extVars, dsVars, concVars, catLast, via, catCalls, lastWrite>>

\* c.Upsert(plugin) in process p: the write of os.WriteFile and the return.
CatUpsertWrite(p) ==
    /\ catProc[p].pc = "write"
    /\ catFile' = writeFile(catFile, catProc[p].out)
    /\ lastWrite' = [by |-> p, clean |-> catFile = EmptyBytes]
    /\ catProc' = [catProc EXCEPT ![p].pc = "ready", ![p].n = @ + 1, ![p].out = NoFile]
    /\ UNCHANGED <<extVars, dsVars, concVars, handle, catLast, via, catCalls>>

CatConcNext == \E p \in Handles : CatLoad(p) \/ CatUpsertTruncate(p) \/ CatUpsertWrite(p)

CatConcSpec == CatStart /\ [][CatConcNext]_vars

-----------------------------------------------------------------------------
(* Discovery resolution: getPluginsFromDB scans the rows of the query      *)
(*   SELECT * FROM PluginBinaries ORDER BY PluginName,Target,Version       *)
(* once, left to right, and groups them into Discovered records. Each      *)
(* action is one turn of the loop or one way of leaving it.                *)

\* The largest number of rows the table holds.
MaxRows == 3

\* The column values of the rows, each list in the order in which the
\* database sorts TEXT (byte by byte): "v10.0.0" comes before "v2.0.0".
PluginNames == <<"cluster", "login">>

DBTargets == <<"global", "kubernetes">>

DBVersions == <<"v10.0.0", "v2.0.0">>

OSs == <<"darwin", "linux">>

\* The RecommendedVersion column: empty, or a version.
DBRecommendedVersions == {"", "v2.0.0"}

\* The same versions in semantic-version order.
SemverOrder == <<"v2.0.0", "v10.0.0">>

IndexOf(list, x) == CHOOSE i \in 1..Len(list) : list[i] = x

Range(list) == {list[i] : i \in 1..Len(list)}

SemverRank(v) == IndexOf(SemverOrder, v)

\* The columns of centralRepoRow that the resolution reads.
centralRepoRow(name, target, recommendedVersion, version, os) ==
    [name |-> name, target |-> target, recommendedVersion |-> recommendedVersion,
     version |-> version, os |-> os]

\* One row per (PluginName, Target, Version, OS): a plugin binary.
Binaries ==
    [name : Range(PluginNames), target : Range(DBTargets),
     version : Range(DBVersions), os : Range(OSs)]

\* The place of a binary in the query's order: PluginName, then Target,
\* then Version (rows that tie on the three are taken in the order of OS).
DBRank(b) ==
    ((IndexOf(PluginNames, b.name) * 10 + IndexOf(DBTargets, b.target)) * 10
        + IndexOf(DBVersions, b.version)) * 10 + IndexOf(OSs, b.os)

RECURSIVE OrderBy(_)
OrderBy(bs) ==
    IF bs = {} THEN <<>>
    ELSE LET first == CHOOSE b \in bs : \A c \in bs : DBRank(b) <= DBRank(c)
         IN  <<first>> \o OrderBy(bs \ {first})

\* convertTargetFromDB's call of cliv1alpha1.StringToTarget.
StringToTarget(target) ==
    IF target \in {"kubernetes", "k8s"} THEN "kubernetes"
    ELSE IF target \in {"mission-control", "tmc"} THEN "mission-control"
    ELSE ""

\* The targets of the table are lower-case, so strings.ToLower keeps them.
convertTargetFromDB(target) ==
    IF target = "global" THEN StringToTarget("") ELSE StringToTarget(target)

\* The Discovered record a new plugin starts as (the fields the rows decide).
Discovered(row) ==
    [Name |-> row.name,
     RecommendedVersion |-> row.recommendedVersion,
     SupportedVersions |-> <<>>,
     Target |-> convertTargetFromDB(row.target),
     Distribution |-> EmptyMap]

\* distribution.Artifact for a row.
Artifact(row) == [Image |-> "prefix/" \o row.name \o "-" \o row.os, OS |-> row.os]

RECURSIVE InsertVersion(_, _)
InsertVersion(sorted, v) ==
    IF sorted = <<>> THEN <<v>>
    ELSE IF SemverRank(v) < SemverRank(Head(sorted)) THEN <<v>> \o sorted
    ELSE <<Head(sorted)>> \o InsertVersion(Tail(sorted), v)

\* SortVersions: the versions in ascending semantic-version order.
RECURSIVE SortVersions(_)
SortVersions(versions) ==
    IF versions = <<>> THEN <<>>
    ELSE InsertVersion(SortVersions(Tail(versions)), Head(versions))

\* appendPlugin dereferences plugin, and indexes its SupportedVersions when
\* no recommended version came with the rows.
appendPluginPanics(plugin) ==
    \/ plugin = NilPlugin
    \/ plugin.RecommendedVersion = "" /\ plugin.SupportedVersions = <<>>

appendPlugin_First(allPlugins, plugin) ==
    LET sorted == SortVersions(plugin.SupportedVersions)
    IN  Append(allPlugins,
               [plugin EXCEPT !.SupportedVersions = sorted,
                              !.RecommendedVersion =
                                  IF @ = "" THEN sorted[1] ELSE @])

appendPlugin(allPlugins, plugin) ==
    LET sorted == SortVersions(plugin.SupportedVersions)
    IN  Append(allPlugins,
               [plugin EXCEPT !.SupportedVersions = sorted,
                              !.RecommendedVersion =
                                  IF @ = "" THEN sorted[Len(sorted)] ELSE @])

\* Lines 252-279: the row starts a new plugin. The plugin built so far gets
\* the artifacts of its last version and its Distribution, and is appended.
startPlugin(s, row) ==
    LET stored ==
            IF s.currentPlugin # NilPlugin
            THEN LET artifacts == MapPut(s.artifacts, s.currentVersion, s.artifactList)
                 IN  [s EXCEPT !.artifactList = <<>>,
                               !.allPlugins =
                                   appendPlugin(@, [s.currentPlugin EXCEPT
                                                       !.Distribution = artifacts])]
            ELSE s
    IN  [stored EXCEPT
            !.currentPluginID =
                PluginNameTarget(row.name, convertTargetFromDB(row.target)),
            !.currentPlugin = Discovered(row),
            !.currentVersion = "",
            !.artifacts = EmptyMap]

\* Lines 282-295: the row starts a new version of the current plugin.
startVersion(s, row) ==
    LET stored ==
            IF s.currentVersion # ""
            THEN [s EXCEPT !.artifacts = MapPut(@, s.currentVersion, s.artifactList),
                           !.artifactList = <<>>]
            ELSE s
    IN  [stored EXCEPT
            !.currentPlugin.SupportedVersions = Append(@, row.version),
            !.currentVersion = row.version]

\* The body of the loop for one row that was scanned.
scanRow(s, row) ==
    LET pluginIdFromRow == PluginNameTarget(row.name, convertTargetFromDB(row.target))
        s1 == IF s.currentPluginID # pluginIdFromRow THEN startPlugin(s, row) ELSE s
        s2 == IF s1.currentVersion # row.version THEN startVersion(s1, row) ELSE s1
    IN  [s2 EXCEPT !.artifactList = Append(@, Artifact(row)), !.pos = @ + 1]

\* Lines 310-314: after the loop, the plugin being built is appended as it is.
returnPlugins(s, err) ==
    IF appendPluginPanics(s.currentPlugin)
    THEN [kind |-> "panic", plugins |-> <<>>, err |-> "nil"]
    ELSE [kind |-> "returned",
          plugins |-> appendPlugin(s.allPlugins, s.currentPlugin),
          err |-> err]

\* The table: any set of at most MaxRows binaries, each with its
\* RecommendedVersion column, in the order of the query.
DiscInit ==
    /\ \E bs \in SUBSET Binaries :
        /\ Cardinality(bs) <= MaxRows
        /\ \E rec \in [1..Cardinality(bs) -> DBRecommendedVersions] :
            LET ordered == OrderBy(bs)
            IN  dbRows = [i \in 1..Cardinality(bs) |->
                            centralRepoRow(ordered[i].name, ordered[i].target, rec[i],
                                           ordered[i].version, ordered[i].os)]
    /\ scan = NoScan
    /\ discRet = Running
    /\ cursor = "none"

\* The deferred rows.Close() runs when the function returns.
rowsClose_Leak(c) == c

rowsClose(c) == "closed"

\* db.Query opens the cursor; the loop runs on the open cursor.
DiscQuery ==
    /\ discRet = Running
    /\ cursor = "none"
    /\ cursor' = "open"
    /\ UNCHANGED <<nonDiscVars, dbRows, scan, discRet>>

Scanning == discRet = Running /\ cursor = "open"

\* rows.Next() gives a row and rows.Scan reads it.
DiscNextRow ==
    /\ Scanning
    /\ scan.pos < Len(dbRows)
    /\ scan' = scanRow(scan, dbRows[scan.pos + 1])
    /\ UNCHANGED <<nonDiscVars, dbRows, discRet, cursor>>

\* rows.Next() gives a row and rows.Scan fails on it (lines 245-248).
DiscScanError ==
    /\ Scanning
    /\ scan.pos < Len(dbRows)
    /\ discRet' = [kind |-> "returned", plugins |-> scan.allPlugins, err |-> "scan"]
    /\ cursor' = rowsClose(cursor)
    /\ UNCHANGED <<nonDiscVars, dbRows, scan>>

\* rows.Next() is false after the last row, and rows.Err() is nil.
DiscEndOfRows ==
    /\ Scanning
    /\ scan.pos = Len(dbRows)
    /\ discRet' = returnPlugins(scan, "nil")
    /\ cursor' = rowsClose(cursor)
    /\ UNCHANGED <<nonDiscVars, dbRows, scan>>

\* rows.Next() is false because the cursor failed, which rows.Err() reports.
DiscCursorError ==
    /\ Scanning
    /\ discRet' = returnPlugins(scan, "cursor")
    /\ cursor' = rowsClose(cursor)
    /\ UNCHANGED <<nonDiscVars, dbRows, scan>>

DiscNext == DiscQuery \/ DiscNextRow \/ DiscScanError \/ DiscEndOfRows \/ DiscCursorError

DiscStart == StoresIdle /\ DiscInit /\ CfgIdle /\ GrpIdle /\ VerIdle

DiscSpec == DiscStart /\ [][DiscNext]_vars

\* The table's PluginName and Target columns are TEXT with no constraint:
\* a name may hold an underscore, a target may be a string the CLI does
\* not know. Each list is in the order in which the database sorts TEXT.
TextNames == <<"cluster", "cluster_kubernetes">>

TextTargets == <<"global", "kubernetes", "unknown">>

TextBinaries ==
    [name : Range(TextNames), target : Range(TextTargets),
     version : Range(DBVersions), os : {"linux"}]

\* The place of such a binary in the query's order.
TextRank(b) ==
    (IndexOf(TextNames, b.name) * 10 + IndexOf(TextTargets, b.target)) * 10
        + IndexOf(DBVersions, b.version)

RECURSIVE TextOrderBy(_)
TextOrderBy(bs) ==
    IF bs = {} THEN <<>>
    ELSE LET first == CHOOSE b \in bs : \A c \in bs : TextRank(b) <= TextRank(c)
         IN  <<first>> \o TextOrderBy(bs \ {first})

\* The table: any set of at most MaxRows such binaries, none declaring a
\* recommended version, in the order of the query.
TextInit ==
    /\ \E bs \in SUBSET TextBinaries :
        /\ Cardinality(bs) <= MaxRows
        /\ LET ordered == TextOrderBy(bs)
           IN  dbRows = [i \in 1..Cardinality(bs) |->
                           centralRepoRow(ordered[i].name, ordered[i].target, "",
                                          ordered[i].version, ordered[i].os)]
    /\ scan = NoScan
    /\ discRet = Running
    /\ cursor = "none"

TextStart == StoresIdle /\ TextInit /\ CfgIdle /\ GrpIdle /\ VerIdle

\* Discovery resolution over a table of unconstrained names and targets.
TextSpec == TextStart /\ [][DiscNext]_vars

-----------------------------------------------------------------------------
(* The central configuration: a YAML document fetched with the plugin      *)
(* inventory, read by GetCentralConfigEntry(key, &out) into a value of     *)
(* the caller's type.                                                      *)

\* The YAML values of the document's keys: a node has the tag yaml.v3
\* resolves for it and, for a sequence, the tags of its elements.
CfgNode(tag, elems) == [tag |-> tag, elems |-> elems]

CfgNodes ==
    {CfgNode("!!null", <<>>), CfgNode("!!str", <<>>), CfgNode("!!bool", <<>>),
     CfgNode("!!int", <<>>), CfgNode("!!float", <<>>), CfgNode("!!timestamp", <<>>),
     CfgNode("!!map", <<>>), CfgNode("!!seq", <<>>),
     CfgNode("!!seq", <<"!!str", "!!str">>), CfgNode("!!seq", <<"!!str", "!!int">>)}

\* The keys of the document, and the keys asked for.
CfgDocKeys == {"testKey", "otherKey"}

CfgKeys == {"testKey", "invalidKey", ""}

\* A file that is not a YAML mapping, and a file that cannot be read.
InvalidYaml == [kind |-> "invalid"]

Unreadable == [kind |-> "unreadable"]

CfgFiles ==
    {NoFile, EmptyBytes, InvalidYaml, Unreadable}
        \cup {YamlMapping(m) : m \in UNION {[ks -> CfgNodes] : ks \in SUBSET CfgDocKeys}}

\* The dynamic type of the value yaml.Unmarshal builds for a node in an
\* interface{}.
GoTypeOfTag(tag) ==
    CASE tag = "!!null" -> "nil"
      [] tag = "!!str" -> "string"
      [] tag = "!!bool" -> "bool"
      [] tag = "!!int" -> "int"
      [] tag = "!!float" -> "float64"
      [] tag = "!!timestamp" -> "time.Time"
      [] tag = "!!seq" -> "[]interface {}"
      [] tag = "!!map" -> "map[string]interface {}"

cfgDecodeValue(node) ==
    [t |-> GoTypeOfTag(node.tag),
     elems |-> [i \in 1..Len(node.elems) |-> GoTypeOfTag(node.elems[i])]]

\* parseConfigFile: a missing file is no error and gives the nil map, as
\* does a file of zero bytes.
parseConfigFile(file) ==
    CASE file = NoFile -> [values |-> NilContent, err |-> "nil"]
      [] file = Unreadable -> [values |-> NilContent, err |-> "read"]
      [] file = InvalidYaml -> [values |-> NilContent, err |-> "yaml"]
      [] file = EmptyBytes -> [values |-> NilContent, err |-> "nil"]
      [] file.kind = "mapping" ->
            [values |-> MapContent([k \in DOMAIN file.m |-> cfgDecodeValue(file.m[k])]),
             err |-> "nil"]

\* The types of out that extractValue's switch names, one that takes its
\* default branch, and an out that is not a pointer.
OutTypes ==
    {"string", "bool", "int", "float64", "[]string", "[]interface {}", "time.Time",
     "map[string]interface {}", "not a pointer"}

\* unstructured.NestedString, NestedBool, NestedFloat64 and the val.(T)
\* assertions for int and time.Time: the value must have the type itself.
nestedTyped(val, type) ==
    IF val.t = type THEN [ok |-> TRUE, err |-> "nil"] ELSE [ok |-> FALSE, err |-> "type"]

\* unstructured.NestedStringSlice: a slice all of whose elements are strings.
NestedStringSlice(val) ==
    IF val.t = "[]interface {}" /\ \A i \in 1..Len(val.elems) : val.elems[i] = "string"
    THEN [ok |-> TRUE, err |-> "nil"]
    ELSE [ok |-> FALSE, err |-> "type"]

\* The types runtime.DeepCopyJSONValue copies; it panics on the others.
JSONTypes == {"string", "bool", "float64", "nil", "[]interface {}", "map[string]interface {}"}

\* unstructured.NestedSlice: a slice, of which it returns a deep copy.
NestedSlice(val) ==
    IF val.t # "[]interface {}" THEN [ok |-> FALSE, err |-> "type"]
    ELSE IF \E i \in 1..Len(val.elems) : val.elems[i] \notin JSONTypes
    THEN [ok |-> FALSE, err |-> "panic"]
    ELSE [ok |-> TRUE, err |-> "nil"]

\* The default branch: yaml.Marshal(res), then yaml.Unmarshal into out; a
\* null leaves a map as it is, any other node that is no mapping is refused.
unmarshalIntoMap(val) ==
    IF val.t \in {"nil", "map[string]interface {}"}
    THEN [ok |-> TRUE, err |-> "nil"]
    ELSE [ok |-> TRUE, err |-> "type"]

extractValue(out, values, key) ==
    IF key \notin contentKeys(values) THEN [ok |-> FALSE, err |-> "nil"]
    ELSE IF out = "not a pointer" THEN [ok |-> FALSE, err |-> "pointer"]
    ELSE LET val == values.m[key]
         IN  CASE out \in {"string", "bool", "int", "float64", "time.Time"} ->
                    nestedTyped(val, out)
               [] out = "[]string" -> NestedStringSlice(val)
               [] out = "[]interface {}" -> NestedSlice(val)
               [] OTHER -> unmarshalIntoMap(val)

GetCentralConfigEntry_OkFirst(file, key, out) ==
    LET parsed == parseConfigFile(file)
        got == extractValue(out, parsed.values, key)
    IN  IF parsed.err # "nil" THEN [err |-> parsed.err, set |-> FALSE]
        ELSE IF ~got.ok THEN [err |-> "not found", set |-> FALSE]
        ELSE IF got.err # "nil" THEN [err |-> got.err, set |-> FALSE]
        ELSE [err |-> "nil", set |-> TRUE]

\* GetCentralConfigEntry(key, out): the error it returns and whether out
\* was set.
GetCentralConfigEntry(file, key, out) ==
    LET parsed == parseConfigFile(file)
        got == extractValue(out, parsed.values, key)
    IN  IF parsed.err # "nil" THEN [err |-> parsed.err, set |-> FALSE]
        ELSE IF got.err # "nil" THEN [err |-> got.err, set |-> FALSE]
        ELSE IF ~got.ok THEN [err |-> "not found", set |-> FALSE]
        ELSE [err |-> "nil", set |-> TRUE]

\* The file is whatever the discovery source published, if anything.
CfgInit == cfgFile \in CfgFiles /\ cfgLast = NoCfgCall

CfgGetEntry ==
    \E key \in CfgKeys, out \in OutTypes :
        LET r == GetCentralConfigEntry(cfgFile, key, out)
        IN  /\ cfgLast' = [key |-> key, out |-> out, err |-> r.err, set |-> r.set]
            /\ UNCHANGED <<nonCfgVars, cfgFile>>

CfgNext == CfgGetEntry

CfgStart == StoresIdle /\ DiscIdle /\ CfgInit /\ GrpIdle /\ VerIdle

CfgSpec == CfgStart /\ [][CfgNext]_vars

-----------------------------------------------------------------------------
(* Plugin-group identifiers. The group commands print a group as           *)
(* vendor-publisher/name, with :version after it when they show a          *)
(* version's content, and "plugin group get" parses such a string. A       *)
(* string is a sequence of characters, so that splitting is computed.      *)

\* The longest Vendor, Publisher, Name or Version.
MaxPartLen == 2

\* The characters of the parts of an identifier: a letter and the hyphen.
PartChars == {"a", "-"}

Parts == UNION {[1..n -> PartChars] : n \in 1..MaxPartLen}

PluginGroupIdentifier(vendor, publisher, name, version) ==
    [Vendor |-> vendor, Publisher |-> publisher, Name |-> name, Version |-> version]

\* The groups of the inventory, with their recommended version if any.
PluginGroups ==
    {PluginGroupIdentifier(v, p, n, ver) :
        v \in Parts, p \in Parts, n \in Parts, ver \in Parts \cup {<<>>}}

\* strings.Index: the place of the first c in s, or 0.
IndexChar(s, c) ==
    IF \E i \in 1..Len(s) : s[i] = c
    THEN CHOOSE i \in 1..Len(s) : s[i] = c /\ \A j \in 1..(i - 1) : s[j] # c
    ELSE 0

\* plugininventory.PluginGroupToID: vendor-publisher/name.
PluginGroupToID(group) ==
    group.Vendor \o <<"-">> \o group.Publisher \o <<"/">> \o group.Name

NilIdentifier == [nil |-> TRUE]

\* plugininventory.PluginGroupIdentifierFromID: the version after the
\* colon if there is one, the name after the slash, vendor and publisher
\* split at the first hyphen; nil for a string that is not of this form.
PluginGroupIdentifierFromID(id) ==
    LET colon == IndexChar(id, ":")
        idPart == IF colon = 0 THEN id ELSE SubSeq(id, 1, colon - 1)
        version == IF colon = 0 THEN <<>> ELSE SubSeq(id, colon + 1, Len(id))
        slash == IndexChar(idPart, "/")
        vendorPublisher == SubSeq(idPart, 1, slash - 1)
        name == SubSeq(idPart, slash + 1, Len(idPart))
        hyphen == IndexChar(vendorPublisher, "-")
        vendor == SubSeq(vendorPublisher, 1, hyphen - 1)
        publisher == SubSeq(vendorPublisher, hyphen + 1, Len(vendorPublisher))
    IN  IF slash = 0 \/ hyphen = 0 THEN NilIdentifier
        ELSE IF vendor = <<>> \/ publisher = <<>> \/ name = <<>> THEN NilIdentifier
        ELSE PluginGroupIdentifier(vendor, publisher, name, version)

groupIDWithVersion_NoVersion(group) == PluginGroupToID(group)

\* fmt.Sprintf("%s:%s", PluginGroupToID(group), group.RecommendedVersion)
groupIDWithVersion(group) ==
    PluginGroupToID(group) \o <<":">> \o group.Version

\* cli.VersionLatest
VersionLatest == <<"l", "a", "t", "e", "s", "t">>

\* newGetCmd up to its criteria: the parsed identifier as it came, the
\* error for a string that is none, and the criteria with the version
\* defaulted.
getGroup(id) ==
    LET groupId == PluginGroupIdentifierFromID(id)
    IN  IF groupId = NilIdentifier
        THEN [parsed |-> TRUE, err |-> "incorrect plugin-group", id |-> groupId,
              criteria |-> NilIdentifier]
        ELSE [parsed |-> TRUE, err |-> "nil", id |-> groupId,
              criteria |-> IF groupId.Version = <<>>
                           THEN [groupId EXCEPT !.Version = VersionLatest]
                           ELSE groupId]

GrpInit == pg \in PluginGroups /\ gID = NotPrinted /\ groupIdentifier = NotParsed

\* "plugin group search": displayGroupsFound prints the group's ID.
GrpDisplayGroupsFound ==
    /\ gID' = [by |-> "displayGroupsFound", str |-> PluginGroupToID(pg)]
    /\ groupIdentifier' = NotParsed
    /\ UNCHANGED <<nonGrpVars, pg>>

\* "plugin group get -o yaml": displayGroupContentAsList prints ID:version.
GrpDisplayGroupContentAsList ==
    /\ gID' = [by |-> "displayGroupContentAsList", str |-> groupIDWithVersion(pg)]
    /\ groupIdentifier' = NotParsed
    /\ UNCHANGED <<nonGrpVars, pg>>

\* "plugin group get GROUP_NAME" with the string that was printed.
GrpGet ==
    /\ gID # NotPrinted
    /\ groupIdentifier = NotParsed
    /\ groupIdentifier' = getGroup(gID.str)
    /\ UNCHANGED <<nonGrpVars, pg, gID>>

GrpNext == GrpDisplayGroupsFound \/ GrpDisplayGroupContentAsList \/ GrpGet

GrpStart == StoresIdle /\ DiscIdle /\ CfgIdle /\ GrpInit /\ VerIdle

GrpSpec == GrpStart /\ [][GrpNext]_vars

-----------------------------------------------------------------------------
(* The catalog when reading catalog.yaml fails although the file exists    *)
(* (no permission to read it, an I/O error).                               *)

\* c, err := NewContextCatalog(context) while os.ReadFile of the existing
\* file fails.
CatOpenUnreadable ==
    \E h \in Handles, context \in Contexts :
        /\ catFile # NoFile
        /\ handle' = [handle EXCEPT ![h] = NewContextCatalog(Unreadable, context)]
        /\ CatCall("NewUnreadable", h, context, ZeroPluginInfo, NoCatCall.result)
        /\ UNCHANGED <<catFile, via>>

CatIONext == CatOpen \/ CatOpenUnreadable \/ CatUpsert

CatIOSpec == CatStart /\ [][CatIONext]_vars

-----------------------------------------------------------------------------
(* The check for a recommended CLI version, which every CLI invocation     *)
(* runs: CheckRecommendedCLIVersion reads the time of the last check from  *)
(* the data store, prints its recommendations if the delay has passed, and *)
(* stores the time. Invocations are separate processes; each data store    *)
(* call is one step, as its file lock makes it.                            *)

\* The last instant of the clock, and the checks one invocation runs.
MaxTime == 3

MaxChecks == 2

\* The delays the environment can set: 0 disables the check.
Delays == {0, 1, 2}

dataStoreLastVersionCheckKey == "lastVersionCheck"

\* time.Now() as a data store value.
GoTime(t) == [t |-> "time.Time", v |-> t]

\* The data store as a process that starts finds it: lockFile is nil.
FreshStore == Store(dsDir, dsFile, "nil")

\* shouldCheckVersion, at time t with delay d.
shouldCheckVersion(s, t, d) ==
    IF d = 0 THEN FALSE
    ELSE LET lastCheck == GetDataStoreValue(s, dataStoreLastVersionCheckKey)
         IN  IF lastCheck.err # "nil" \/ lastCheck.ret = GoNil THEN TRUE
             ELSE IF lastCheck.ret.t # "time.Time" THEN TRUE
             ELSE t - lastCheck.ret.v > d

VerInit ==
    /\ now = 0
    /\ delay \in Delays
    /\ inv = [i \in Invocations |-> [pc |-> "idle", n |-> 0]]
    /\ printedAt = <<>>

VerReturn(i) == inv' = [inv EXCEPT ![i] = [pc |-> "idle", n |-> @.n + 1]]

\* CheckRecommendedCLIVersion starts: shouldCheckVersion.
VerShouldCheck(i) ==
    /\ inv[i].pc = "idle"
    /\ inv[i].n < MaxChecks
    /\ IF shouldCheckVersion(FreshStore, now, delay)
       THEN inv' = [inv EXCEPT ![i].pc = "recommend"]
       ELSE VerReturn(i)
    /\ UNCHANGED <<storeVars, discVars, cfgVars, grpVars, now, delay, printedAt>>

\* The central configuration is read and the recommended versions found:
\* with none for the version that runs (or no entry, or one that cannot be
\* used) the function returns; otherwise printVersionRecommendations
\* prints them.
VerRecommend(i) ==
    /\ inv[i].pc = "recommend"
    /\ \E recommended \in BOOLEAN :
        IF recommended
        THEN /\ printedAt' = Append(printedAt, [by |-> i, at |-> now])
             /\ inv' = [inv EXCEPT ![i].pc = "save"]
        ELSE /\ VerReturn(i)
             /\ UNCHANGED printedAt
    /\ UNCHANGED <<storeVars, discVars, cfgVars, grpVars, now, delay>>

\* printVersionRecommendations ends:
\* _ = datastore.SetDataStoreValue(dataStoreLastVersionCheckKey, time.Now())
VerSave(i) ==
    /\ inv[i].pc = "save"
    /\ LET r == SetDataStoreValue(FreshStore, dataStoreLastVersionCheckKey, GoTime(now))
       IN  dsDir' = r.s.dir /\ dsFile' = r.s.file
    /\ VerReturn(i)
    /\ UNCHANGED <<lockFile, dsLast, concVars, catVars, discVars, cfgVars, grpVars,
                   now, delay, printedAt>>

\* Time passes.
VerTick ==
    /\ now < MaxTime
    /\ now' = now + 1
    /\ UNCHANGED <<storeVars, discVars, cfgVars, grpVars, delay, inv, printedAt>>

VerNext ==
    \/ \E i \in Invocations : VerShouldCheck(i) \/ VerRecommend(i) \/ VerSave(i)
    \/ VerTick

VerStart == StoresIdle /\ DiscIdle /\ CfgIdle /\ GrpIdle /\ VerInit

VerSpec == VerStart /\ [][VerNext]_vars

-----------------------------------------------------------------------------
(* Properties of the data store calls of one process.                      *)

\* The keys the store's document holds.
StoredKeys(s) == contentKeys(getDataStoreContent(s, FALSE).content)

\* What a Get of key answers on store s: its value and its error.
Answer(s, key) ==
    LET g == GetDataStoreValue(s, key) IN [ret |-> g.ret, err |-> g.err]

NotFound == [ret |-> GoNil, err |-> "nil"]

\* A value as YAML hands it back: a typed map comes back as a generic
\* string-keyed map, every other value as itself.
YamlNormalized(val) ==
    IF val.t = "map[string]string"
    THEN [t |-> "map[string]interface {}", v |-> val.v]
    ELSE val

\* C1 as stated: after SetDataStoreValue(k, v), which returns no error, a
\* GetDataStoreValue(k) returns v itself with no error.
C1_SetThenGetSameValue ==
    dsLast.op = "Set" =>
        /\ dsLast.err = "nil"
        /\ Answer(CurStore, dsLast.key) = [ret |-> dsLast.value, err |-> "nil"]

\* C1 amended: for every key (the empty one too) and value, from a missing
\* directory, a missing file, an empty file or a file holding other keys,
\* SetDataStoreValue(k, v) returns no error and the Get that follows returns
\* v as YAML normalises it (a typed map as a generic map) with no error.
C1_SetThenGetNormalized ==
    dsLast.op = "Set" =>
        /\ dsLast.err = "nil"
        /\ Answer(CurStore, dsLast.key) =
               [ret |-> YamlNormalized(dsLast.value), err |-> "nil"]

\* A Set of a typed map under the empty key into a missing directory.
C1_Witness ==
    /\ dsLast.op = "Set"
    /\ dsLast.key = ""
    /\ dsLast.value = GoTypedMap
    /\ ~dsLast.pre.dir

\* C2: DeleteDataStoreValue(k) of a present key returns the value k held
\* and no error, and from then on Get(k) answers nil until k is Set again
\* (an absent key stays absent over every step that is not a Set of it).
C2_DeletePresent ==
    /\ [](dsLast.op = "Delete" /\ dsLast.key \in StoredKeys(dsLast.pre) =>
            /\ dsLast.err = "nil"
            /\ dsLast.ret = Answer(dsLast.pre, dsLast.key).ret
            /\ dsLast.key \notin StoredKeys(CurStore)
            /\ Answer(CurStore, dsLast.key) = NotFound)
    /\ [][\A k \in Keys :
            (k \notin StoredKeys(CurStore) /\ ~(dsLast'.op = "Set" /\ dsLast'.key = k))
            => (k \notin StoredKeys(CurStore)' /\ Answer(CurStore, k)' = NotFound)]_vars

\* A Delete of a present key holding a map returned it.
C2_Witness ==
    /\ dsLast.op = "Delete"
    /\ dsLast.key \in StoredKeys(dsLast.pre)
    /\ dsLast.ret = GoGenericMap
    /\ StoredKeys(CurStore) # {}

\* C3: DeleteDataStoreValue(k) of an absent key (no directory, no file, an
\* empty document or a document of other keys) returns nil and an error,
\* and every key answers a Get after the call as it did before it.
C3_DeleteAbsent ==
    dsLast.op = "Delete" /\ dsLast.key \notin StoredKeys(dsLast.pre) =>
        /\ dsLast.ret = GoNil
        /\ dsLast.err # "nil"
        /\ \A k \in Keys : Answer(CurStore, k) = Answer(dsLast.pre, k)

\* A Delete of an absent key on a store holding another key.
C3_Witness ==
    /\ dsLast.op = "Delete"
    /\ dsLast.key \notin StoredKeys(dsLast.pre)
    /\ StoredKeys(dsLast.pre) # {}
    /\ dsLast.err = "key not found in data store"

\* C4: GetDataStoreValue on a store with no file (or no directory) returns
\* (nil, nil) and leaves the directory and the file as missing as they were.
C4_GetMissingReadOnly ==
    dsLast.op = "Get" /\ dsLast.pre.file = NoFile =>
        /\ dsLast.ret = GoNil
        /\ dsLast.err = "nil"
        /\ dsDir = dsLast.pre.dir
        /\ dsFile = NoFile

\* A Get was made where the directory did not exist.
C4_Witness == dsLast.op = "Get" /\ ~dsLast.pre.dir /\ dsLast.pre.file = NoFile

-----------------------------------------------------------------------------
(* Properties of concurrent data store calls.                              *)

\* C5: whenever no writer holds the lock, the document is the one the
\* committed Sets and Deletes give when run one at a time in the order of
\* their write-backs, and the last committed write to each key shows: a
\* key last Set holds that value, a key last Deleted is absent. Once every
\* process has returned, the file is that serial result byte for byte.
C5_Serializable ==
    /\ flock.excl = "none" =>
          /\ yamlUnmarshal(dsFile) = yamlUnmarshal(serialFile)
          /\ \A k \in ConcKeys :
                /\ committed[k].op = "Set" =>
                      Answer(Store(dsDir, dsFile, "nil"), k) =
                          [ret |-> committed[k].value, err |-> "nil"]
                /\ committed[k].op = "Delete" =>
                      k \notin StoredKeys(Store(dsDir, dsFile, "nil"))
    /\ (\A p \in Procs : At(p, "idle")) => dsFile = serialFile

\* A process waits for the lock to Set one key while another, which holds
\* the lock, has written its Set of a different key.
C5_Witness ==
    \E p \in Procs, q \in Procs :
        /\ At(p, "lock") /\ proc[p].at.op = "Set"
        /\ At(q, "close") /\ proc[q].at.op = "Set"
        /\ proc[p].at.key # proc[q].at.key
        /\ committed[proc[p].at.key].op = "Set"
        /\ StoredKeys(Store(dsDir, dsFile, "nil")) = ConcKeys

-----------------------------------------------------------------------------
(* Properties of the catalog calls of one process.                         *)

\* The plugins, as (Name, Target) pairs, that List() of c returns.
Listed(c) == {<<pd.Name, pd.Target>> : pd \in ContextList(c)}

ReferencedPaths(catalog) ==
    MapValues(catalog.StandAlonePlugins) \cup
    UNION {MapValues(catalog.ServerPlugins[context]) :
              context \in DOMAIN catalog.ServerPlugins}

\* C7: from an absent catalog file, every installation path the persisted
\* StandAlonePlugins or a ServerPlugins sub-map refers to is a key of the
\* persisted IndexByPath.
C7_PathsIndexed ==
    catFile # NoFile =>
        ReferencedPaths(getCatalogCache(catFile)) \subseteq
            DOMAIN getCatalogCache(catFile).IndexByPath

\* After a Delete the persisted catalog still refers to paths from both the
\* stand-alone scope and a context.
C7_Witness ==
    /\ catLast.op = "Delete"
    /\ catFile # NoFile
    /\ MapValues(getCatalogCache(catFile).StandAlonePlugins) # {}
    /\ "ctxX" \in DOMAIN getCatalogCache(catFile).ServerPlugins
    /\ MapValues(getCatalogCache(catFile).ServerPlugins["ctxX"]) # {}

\* What Get(key) must answer on c: the descriptor IndexByPath holds at the
\* path the scope maps key to, found exactly when both lookups hit.
Lookup(c, key) ==
    IF /\ key \in DOMAIN plugins(c)
       /\ plugins(c)[key] \in DOMAIN c.sharedCatalog.IndexByPath
    THEN [pd |-> c.sharedCatalog.IndexByPath[plugins(c)[key]], ok |-> TRUE]
    ELSE [pd |-> ZeroPluginInfo, ok |-> FALSE]

C9_DeleteFrame ==
    catLast.op = "Delete" =>
        LET before == catLast.pre
            after == handle[catLast.h]
        IN  /\ after.context = before.context
            /\ after.sharedCatalog.IndexByPath = before.sharedCatalog.IndexByPath
            /\ after.sharedCatalog.IndexByName = before.sharedCatalog.IndexByName
            /\ plugins(after) = MapDelete(plugins(before), catLast.key)
            /\ before.context # "" =>
                  after.sharedCatalog.StandAlonePlugins =
                      before.sharedCatalog.StandAlonePlugins
            /\ DOMAIN after.sharedCatalog.ServerPlugins =
                   DOMAIN before.sharedCatalog.ServerPlugins
            /\ \A context \in DOMAIN before.sharedCatalog.ServerPlugins :
                  context # before.context =>
                      after.sharedCatalog.ServerPlugins[context] =
                          before.sharedCatalog.ServerPlugins[context]
            /\ catFile = marshalCatalog(after.sharedCatalog)

\* A Delete removed one of the two associations of a context; the other
\* stays, and so does the descriptor of the deleted one.
C9_Witness ==
    /\ catLast.op = "Delete"
    /\ catLast.pre.context = "ctxX"
    /\ catLast.key \in DOMAIN plugins(catLast.pre)
    /\ plugins(handle[catLast.h]) # EmptyMap
    /\ plugins(catLast.pre)[catLast.key] \in
           DOMAIN getCatalogCache(catFile).IndexByPath

-----------------------------------------------------------------------------
(* Properties of concurrent catalog calls.                                 *)

\* No process is between the truncation and the write of a save.
CatQuiet == \A p \in Handles : catProc[p].pc # "write"

\* The processes have upserted different plugins.
DifferentPlugins ==
    \A p \in Handles, q \in Handles :
        p # q => catProc[p].mine \cap catProc[q].mine = {}

-----------------------------------------------------------------------------
(* Properties of discovery resolution.                                     *)

Returned == discRet.kind = "returned"

\* The (Name, Target) pairs of the rows.
PluginPairs == {<<dbRows[i].name, convertTargetFromDB(dbRows[i].target)>> :
                    i \in 1..Len(dbRows)}

\* The rows a plugin record was built from.
RowsOf(plugin) ==
    {i \in 1..Len(dbRows) :
        /\ dbRows[i].name = plugin.Name
        /\ convertTargetFromDB(dbRows[i].target) = plugin.Target}

\* C11: from N >= 1 sorted rows with k distinct (Name, Target) pairs and no
\* error, resolution returns exactly k records, each with a non-empty
\* SupportedVersions and a Distribution entry for each of its versions,
\* the last record included.
C11_GroupedWithDistribution ==
    Returned /\ discRet.err = "nil" /\ Len(dbRows) >= 1 =>
        /\ Len(discRet.plugins) = Cardinality(PluginPairs)
        /\ \A i \in 1..Len(discRet.plugins) :
            LET plugin == discRet.plugins[i]
            IN  /\ plugin.SupportedVersions # <<>>
                /\ Range(plugin.SupportedVersions) \subseteq DOMAIN plugin.Distribution

\* C12: a returned record whose rows declare no recommended version has
\* as RecommendedVersion a member of its SupportedVersions that no other
\* member exceeds in semantic-version order.
C12_RecommendedIsHighest ==
    Returned =>
        \A i \in 1..Len(discRet.plugins) :
            LET plugin == discRet.plugins[i]
            IN  /\ \A r \in RowsOf(plugin) : dbRows[r].recommendedVersion = ""
                /\ plugin.SupportedVersions # <<>>
                => /\ plugin.RecommendedVersion \in Range(plugin.SupportedVersions)
                   /\ \A v \in Range(plugin.SupportedVersions) :
                        SemverRank(v) <= SemverRank(plugin.RecommendedVersion)

\* A record built from rows of v10.0.0 then v2.0.0 (the order of the
\* query), none declaring a recommended version, was returned with v10.0.0.
C12_Witness ==
    /\ Returned
    /\ \E i \in 1..Len(discRet.plugins) :
        LET plugin == discRet.plugins[i]
        IN  /\ \A r \in RowsOf(plugin) : dbRows[r].recommendedVersion = ""
            /\ plugin.SupportedVersions = <<"v2.0.0", "v10.0.0">>
            /\ plugin.RecommendedVersion = "v10.0.0"

\* C13: an error is never returned together with plugin records.
C13_NoPartialResults ==
    Returned /\ discRet.err # "nil" => discRet.plugins = <<>>

\* C14: every returned record has a non-empty SupportedVersions and a
\* RecommendedVersion that is one of them, declared or computed.
C14_RecommendedSupported ==
    Returned =>
        \A i \in 1..Len(discRet.plugins) :
            LET plugin == discRet.plugins[i]
            IN  /\ plugin.SupportedVersions # <<>>
                /\ plugin.RecommendedVersion \in Range(plugin.SupportedVersions)

-----------------------------------------------------------------------------
(* Properties of the central configuration reader.                         *)

\* The key of the last call is in the document, with this value.
CfgPresent ==
    cfgFile.kind = "mapping" /\ cfgLast.key \in DOMAIN cfgFile.m

CfgValue == cfgDecodeValue(cfgFile.m[cfgLast.key])

\* The key of the last call is missing: no document, an empty document, or
\* a document without the key.
CfgMissing ==
    \/ cfgFile \in {NoFile, EmptyBytes}
    \/ cfgFile.kind = "mapping" /\ cfgLast.key \notin DOMAIN cfgFile.m

\* The value has the type of out, for the types the reader names.
HasTypeOf(val, out) ==
    CASE out = "[]string" ->
            val.t = "[]interface {}" /\ \A i \in 1..Len(val.elems) : val.elems[i] = "string"
      [] out = "[]interface {}" -> val.t = "[]interface {}"
      [] OTHER -> val.t = out

NamedOutTypes ==
    {"string", "bool", "int", "float64", "[]string", "[]interface {}", "time.Time"}

-----------------------------------------------------------------------------
(* Properties of the plugin-group identifiers.                             *)

\* The string printed is the canonical form of pg: the ID alone for a
\* group without a version, ID:version for one with a version.
CanonicalPrinted ==
    \/ gID.by = "displayGroupsFound" /\ pg.Version = <<>>
    \/ gID.by = "displayGroupContentAsList" /\ pg.Version # <<>>

HasHyphen(part) == \E i \in 1..Len(part) : part[i] = "-"

-----------------------------------------------------------------------------
(* Properties of the data store when a process stops in a call.            *)

\* The document a file holds: its keys and their values.
DocumentOf(file) ==
    LET content == yamlUnmarshal(file)
    IN  [k \in contentKeys(content) |-> content.m[k]]

\* C17: whatever step a process stops at, once its lock is gone the file
\* holds the document before its operation or the one after it: the
\* document the committed operations give, never an emptied one.
C17_CrashSafe ==
    flock.excl = "none" => DocumentOf(dsFile) = DocumentOf(serialFile)

-----------------------------------------------------------------------------
(* Properties of the catalog when its file cannot be read.                 *)

\* C18: NewContextCatalog on a file that exists and cannot be read returns
\* an error, and so no catalog.
C18_UnreadableIsError ==
    catLast.op = "NewUnreadable" => ~handle[catLast.h].open

-----------------------------------------------------------------------------
(* Properties of the data store's answer for a key it does not hold.       *)

\* C19: what GetDataStoreValue answers for a key the store does not hold
\* differs from what it answers for any key the store holds, a key stored
\* with an empty value included.
C19_AbsentIsDistinct ==
    \A k \in StoredKeys(CurStore) :
        \A absent \in Keys \ StoredKeys(CurStore) :
            Answer(CurStore, absent) # Answer(CurStore, k)

-----------------------------------------------------------------------------
(* Properties of the check for a recommended CLI version.                  *)

\* C20: with the delay 0 nothing is printed, and after a recommendation
\* printed at time t none is printed before t + delay, whatever the
\* invocations and however they interleave.
C20_AtMostOncePerDelay ==
    /\ delay = 0 => printedAt = <<>>
    /\ \A j \in 1..Len(printedAt), k \in 1..Len(printedAt) :
        j < k => printedAt[k].at >= printedAt[j].at + delay

-----------------------------------------------------------------------------
(* Properties of the span of the data store's exclusive lock.              *)

\* The process has read the document under its lock and not yet written it
\* back: it is before its truncation or between it and its write.
InWriteSpan(p) == proc[p].at.pc \in {"truncate", "write"}

\* A step in which the process reads the file or writes it.
TouchesFile(q) ==
    /\ proc[q].at.pc \in {"read", "truncate", "write", "rread"}
    /\ proc'[q] # proc[q]

\* C21: a Set or Delete holds the exclusive lock, alone, from before its
\* read until after its write, and between its read and its write-back no
\* other process reads or writes the file: no Set, no Delete and no Get,
\* in particular none between the truncation and the write.
C21_LockSpansReadModifyWrite ==
    /\ [](\A p \in Procs :
            proc[p].at.pc \in {"read", "truncate", "write", "close"} =>
                flock.excl = p /\ flock.shared = {})
    /\ [][\A p \in Procs, q \in Procs :
            p # q /\ InWriteSpan(p) => ~TouchesFile(q)]_vars

\* A writer has truncated the file and not yet written it, while a Get of
\* another process has opened the emptied file and waits for the lock.
C21_Witness ==
    \E p \in Procs, q \in Procs :
        /\ p # q
        /\ At(p, "write") /\ dsFile = EmptyBytes
        /\ At(q, "rlock")

-----------------------------------------------------------------------------
(* Properties of the artifacts, the cursor and the empty table.            *)

\* The artifacts of the rows of one plugin and one version, in row order.
ArtifactsOfRows(name, target, version) ==
    LET sel == SelectSeq(dbRows, LAMBDA r :
                   /\ r.name = name
                   /\ convertTargetFromDB(r.target) = target
                   /\ r.version = version)
    IN  [k \in 1..Len(sel) |-> Artifact(sel[k])]

\* C22: from N >= 1 sorted rows and no error, every row has exactly one
\* record of its (Name, Target), and that record's Distribution holds,
\* under the row's Version, the artifacts of the rows of that plugin and
\* version in row order, and holds nothing under any other version: the
\* artifacts of the last version of the last plugin included.
C22_EveryRowOneArtifact ==
    Returned /\ discRet.err = "nil" /\ Len(dbRows) >= 1 =>
        \A i \in 1..Len(dbRows) :
            LET row == dbRows[i]
                target == convertTargetFromDB(row.target)
                holders == {j \in 1..Len(discRet.plugins) :
                               /\ discRet.plugins[j].Name = row.name
                               /\ discRet.plugins[j].Target = target}
            IN  /\ Cardinality(holders) = 1
                /\ \A j \in holders :
                    LET plugin == discRet.plugins[j]
                    IN  /\ row.version \in DOMAIN plugin.Distribution
                        /\ plugin.Distribution[row.version] =
                               ArtifactsOfRows(row.name, target, row.version)
                        /\ DOMAIN plugin.Distribution \subseteq
                               {dbRows[r].version : r \in RowsOf(plugin)}

\* C23: once getPluginsFromDB has left the loop (by the end of the rows, a
\* scan error or a cursor error), the cursor of its query is closed.
C23_CursorClosed == ~(discRet = Running) => cursor = "closed"

\* A scan error on the second row ended the call with the cursor closed.
C23_Witness ==
    /\ Returned
    /\ discRet.err = "scan"
    /\ scan.pos = 1
    /\ cursor = "closed"

\* C29: the rows end with none read and no error: the call returns an
\* empty list of plugins and a nil error.
C29_NoRowsReturnsEmpty ==
    [][DiscEndOfRows /\ dbRows = <<>> =>
          discRet' = [kind |-> "returned", plugins |-> <<>>, err |-> "nil"]]_vars

-----------------------------------------------------------------------------
(* Properties of the plugin identifier that groups the rows.               *)

\* C24: no two records of one resolution have the same (Name, Target),
\* whatever the targets of the rows sorted by their raw columns: 'global'
\* and strings that are no target (both give the default target) included.
C24_UniqueNameTarget ==
    Returned /\ discRet.err = "nil" =>
        \A i \in 1..Len(discRet.plugins), j \in 1..Len(discRet.plugins) :
            i # j =>
                <<discRet.plugins[i].Name, discRet.plugins[i].Target>> #
                    <<discRet.plugins[j].Name, discRet.plugins[j].Target>>

\* C28: PluginNameTarget gives different (name, target) pairs of the rows
\* different identifiers, and so no row is merged into the record of
\* another plugin: every row's (name, target) has a record of its own.
C28_PluginNameTargetInjective ==
    Returned /\ discRet.err = "nil" =>
        /\ \A a \in Range(dbRows), b \in Range(dbRows) :
              PluginNameTarget(a.name, convertTargetFromDB(a.target)) =
                  PluginNameTarget(b.name, convertTargetFromDB(b.target))
              => /\ a.name = b.name
                 /\ convertTargetFromDB(a.target) = convertTargetFromDB(b.target)
        /\ \A a \in Range(dbRows) :
              \E j \in 1..Len(discRet.plugins) :
                  /\ discRet.plugins[j].Name = a.name
                  /\ discRet.plugins[j].Target = convertTargetFromDB(a.target)

-----------------------------------------------------------------------------
(* Properties of repeated Upserts.                                         *)

\* No list of the name index holds an installation path twice.
NoPathTwice(byName) ==
    \A k \in DOMAIN byName :
        \A i \in 1..Len(byName[k]), j \in 1..Len(byName[k]) :
            i # j => byName[k][i] # byName[k][j]

\* The step is an Upsert that repeats the Upsert before it: the same
\* descriptor through the same handle.
RepeatedUpsert ==
    /\ catLast.op = "Upsert"
    /\ catCalls' = catCalls + 1
    /\ catLast'.op = "Upsert"
    /\ catLast'.h = catLast.h
    /\ catLast'.plugin = catLast.plugin

\* C25: after any Upserts, through any scopes, no IndexByName entry of a
\* handle's catalog or of the catalog file holds a path twice, and an
\* Upsert that repeats the one before it leaves the handle's catalog and
\* the file as they were.
C25_UpsertIdempotent ==
    /\ [](/\ \A h \in Handles :
                handle[h].open => NoPathTwice(handle[h].sharedCatalog.IndexByName)
          /\ NoPathTwice(getCatalogCache(catFile).IndexByName))
    /\ [][RepeatedUpsert => handle' = handle /\ catFile' = catFile]_vars

\* An Upsert of a descriptor whose path the name index already listed for
\* its key, next to another path, left the list of the two paths.
C25_Witness ==
    /\ catLast.op = "Upsert"
    /\ catLast.pre.open
    /\ catLast.key \in DOMAIN catLast.pre.sharedCatalog.IndexByName
    /\ ContainsString(catLast.pre.sharedCatalog.IndexByName[catLast.key],
                      catLast.plugin.InstallationPath)
    /\ Len(handle[catLast.h].sharedCatalog.IndexByName[catLast.key]) = 2
    /\ catFile = marshalCatalog(catLast.pre.sharedCatalog)

-----------------------------------------------------------------------------
(* Properties of two catalog handles held at once.                         *)

\* The association map a catalog holds for a scope.
ScopeOf(catalog, context) ==
    IF context = "" THEN catalog.StandAlonePlugins
    ELSE IF context \in DOMAIN catalog.ServerPlugins
    THEN catalog.ServerPlugins[context]
    ELSE EmptyMap

\* C27: an Upsert or Delete through a handle leaves in the catalog file
\* what Upserts through other handles have put there: every descriptor of
\* the path index stays, and so does every association of the scopes
\* other than the handle's own.
C27_UpsertSurvivesOtherHandle ==
    [][catCalls' = catCalls + 1 /\ catLast'.op \in {"Upsert", "Delete"} =>
          LET before == getCatalogCache(catFile)
              after == getCatalogCache(catFile')
          IN  /\ \A path \in DOMAIN before.IndexByPath :
                    /\ path \in DOMAIN after.IndexByPath
                    /\ after.IndexByPath[path] = before.IndexByPath[path]
              /\ \A context \in Contexts \ {handle[catLast'.h].context} :
                    ScopeOf(after, context) = ScopeOf(before, context)]_vars

-----------------------------------------------------------------------------
(* Properties of the keys a data store call is not about.                  *)

\* C30: after SetDataStoreValue(k, v), and after a DeleteDataStoreValue(k)
\* that returned no error, every other key the store held answers a Get as
\* it did before the call.
C30_OtherKeysKept ==
    dsLast.op = "Set" \/ (dsLast.op = "Delete" /\ dsLast.err = "nil") =>
        \A j \in StoredKeys(dsLast.pre) \ {dsLast.key} :
            /\ j \in StoredKeys(CurStore)
            /\ Answer(CurStore, j) = Answer(dsLast.pre, j)

\* A Set of one key on a store that held a map under another key and a
\* third key besides: both are still there, the map as it was.
C30_Witness ==
    /\ dsLast.op = "Set"
    /\ Cardinality(StoredKeys(dsLast.pre) \ {dsLast.key}) = 2
    /\ \E j \in StoredKeys(dsLast.pre) \ {dsLast.key} :
          Answer(CurStore, j).ret = GoGenericMap

-----------------------------------------------------------------------------
(* Properties of the release of the data store's lock.                     *)

\* C26: a process that is in no data store call holds no lock on the
\* store file: every call that took the lock has released it before it
\* returned, whether it succeeded, found no key, or failed to decode the
\* document or to save it.
C26_LockReleasedOnReturn ==
    \A p \in Procs :
        At(p, "idle") => flock.excl # p /\ p \notin flock.shared

====
